---- MODULE Spec2Model ----
(***************************************************************************)
(* Conflict monitoring server: the in-memory event store (MemStorage),     *)
(* the AI analyzer wrapper (ConflictAIAnalyzer) and the WebSocket hub with *)
(* its 30-second monitoring loop (ConflictMonitoringServer).               *)
(*                                                                         *)
(* Time is counted in units of 12 hours from 2025-08-26T00:00Z, so one day *)
(* is Day = 2 units and a calendar date is a day number.  Confidence       *)
(* values are counted in tenths (0.3 is 3).                                *)
(*                                                                         *)
(* Node runs every handler to its next real suspension point without       *)
(* interleaving: an await on an already-settled promise (the store's async *)
(* methods contain no I/O) resumes in the same macrotask, so the only      *)
(* suspension points of a monitoring cycle are the two OpenAI calls.       *)
(***************************************************************************)
EXTENDS FiniteSets, Integers, Sequences, TLC

\* ---------------------------------------------------------------- bounds
MaxSockets == 2     \* connections ever accepted
MaxCycles == 2      \* ticks of the interval timer that are explored
MaxEvents == 9      \* events the store may hold
MaxNow == 10        \* last clock value explored
MaxCalls == 2       \* writing calls a client of the store makes on its own
MaxCallers == 3     \* concurrent callers of createConflictEvent

\* ------------------------------------------------------ program constants
Day == 2                  \* 24 * 60 * 60 * 1000 ms, in 12-hour units
MonitorLimit == 50        \* limit of the monitoring query
AlertLimit == 3           \* criticalEvents.slice(0, 3)
DefaultLimit == 1000      \* filters?.limit || 1000
FallbackConfidence == 3   \* confidence: 0.3 of the catch branch
DefaultConfidence == 5    \* analysis.confidence || 0.5
FullConfidence == 10      \* Math.min(1, ...), and 1.0 of the empty verdict
FallbackRisk == 5         \* riskLevel: 5 of the catch branch, and || 5
MaxRisk == 10             \* Math.min(10, ...)
HotspotLimit == 10        \* getHotspots(limit = 10)

Null == "NULL"            \* null / undefined of a string-valued field
NoDate == 0 - 1           \* an absent startDate / endDate
NullFatalities == 0 - 1   \* fatalities: null
StartNow == 4 * Day       \* the clock when the server is constructed: 2025-08-30T00:00Z,
EarlyNow == 2 * Day + 1   \* or 2025-08-28T12:00Z

Sockets == 1..MaxSockets
Cycles == 1..MaxCycles
Callers == 1..MaxCallers

Min(a, b) == IF a < b THEN a ELSE b
Max(a, b) == IF a > b THEN a ELSE b
Range(s) == {s[i] : i \in 1..Len(s)}

\* A string that is neither null nor empty.
Truthy(region) == region \notin {Null, ""}

\* The distinct values of a list in order of first occurrence: Array.from(new
\* Set(list)), and the key order of a Map filled from the list.
RECURSIVE Distinct(_)
Distinct(list) ==
    IF list = <<>> THEN <<>>
    ELSE LET rest == Distinct(SubSeq(list, 1, Len(list) - 1))
             last == list[Len(list)]
         IN  IF last \in Range(rest) THEN rest ELSE Append(rest, last)

VARIABLES
    conflictEvents,     \* MemStorage.conflictEvents: the Map's entries [key, value],
                        \* in insertion order
    nextId,             \* ids handed out so far (randomUUID yields a fresh id)
    clients,            \* ConflictMonitoringServer.clients: the Set, in insertion order
    readyState,         \* ws.readyState of every connection
    monitoringInterval, \* "armed" or Null
    now,                \* Date.now()
    started,            \* number of timer callbacks that have begun
    cycle,              \* the state of every timer callback
    pub,                \* per cycle, the messages handed to broadcast
    received,           \* per connection, the messages ws.send accepted
    lastBroadcast,      \* what the most recent broadcast call saw and did
    signalled,          \* connections whose 'close' or 'error' event was emitted
    storeCall,          \* the most recent call a client of MemStorage made, and its result
    budget,             \* how much of the environment this behaviour explores
    callers             \* concurrent callers of createConflictEvent: where each is

vars == <<conflictEvents, nextId, clients, readyState, monitoringInterval,
          now, started, cycle, pub, received, lastBroadcast, signalled, storeCall,
          budget, callers>>

\* ------------------------------------------------------------ routes.ts
determineSeverity(fatalities) ==
    IF fatalities >= 50 THEN "critical"
    ELSE IF fatalities >= 10 THEN "high"
    ELSE IF fatalities >= 1 THEN "medium"
    ELSE "low"

\* An ACLED record after convertACLEDEvent: severity derived from fatalities.
convertACLEDEvent(date, country, region, type, fatalities) ==
    [eventDate |-> date, country |-> country, region |-> region,
     eventType |-> type, fatalities |-> fatalities,
     severity |-> determineSeverity(fatalities)]

\* ----------------------------------------------------------- MemStorage
\* The five events of initializeSampleData, with their literal severities;
\* fatalities: eventData.fatalities || null turns the 0 of the third into null.
SampleEvents ==
    << [id |-> 1, eventDate |-> 3 * Day, country |-> "Ukraine", region |-> "Europe",
        eventType |-> "Battles", fatalities |-> 12, severity |-> "high"],
       [id |-> 2, eventDate |-> 3 * Day, country |-> "Israel", region |-> "Middle East",
        eventType |-> "Explosions/Remote violence", fatalities |-> 8, severity |-> "medium"],
       [id |-> 3, eventDate |-> 2 * Day, country |-> "Myanmar", region |-> "Asia",
        eventType |-> "Protests", fatalities |-> NullFatalities, severity |-> "low"],
       [id |-> 4, eventDate |-> 1 * Day, country |-> "Sudan", region |-> "Africa",
        eventType |-> "Violence against civilians", fatalities |-> 25, severity |-> "critical"],
       [id |-> 5, eventDate |-> 0 * Day, country |-> "Syria", region |-> "Middle East",
        eventType |-> "Battles", fatalities |-> 6, severity |-> "medium"] >>

\* The Map: a sequence of entries with distinct keys.
Values(map) == [i \in 1..Len(map) |-> map[i].value]
Keys(map) == {map[i].key : i \in 1..Len(map)}
Entries(events) == [i \in 1..Len(events) |-> [key |-> events[i].id, value |-> events[i]]]

\* Map.prototype.get: the value in a sequence of length one, or <<>> for undefined.
MapGet(map, key) ==
    LET IsKey(entry) == entry.key = key IN Values(SelectSeq(map, IsKey))

\* A set that moves an existing key to the end.
MapSetLast(map, key, value) ==
    LET Other(entry) == entry.key # key
    IN  Append(SelectSeq(map, Other), [key |-> key, value |-> value])

\* Map.prototype.set: an existing key keeps its place, a new one goes last.
MapSet(map, key, value) ==
    IF key \in Keys(map)
    THEN [i \in 1..Len(map) |->
              IF map[i].key = key THEN [key |-> key, value |-> value] ELSE map[i]]
    ELSE Append(map, [key |-> key, value |-> value])

\* Map.prototype.delete
MapDelete(map, key) ==
    LET Other(entry) == entry.key # key IN SelectSeq(map, Other)

\* createConflictEvent: a fresh id, region ?? null, fatalities ?? null (a record
\* arrives here with both set); the caller stores it under that id.
createConflictEvent(insertEvent, id) ==
    [id |-> id, eventDate |-> insertEvent.eventDate, country |-> insertEvent.country,
     region |-> insertEvent.region, eventType |-> insertEvent.eventType,
     fatalities |-> insertEvent.fatalities, severity |-> insertEvent.severity]

RECURSIVE bulkCreateConflictEvents(_, _)
bulkCreateConflictEvents(insertEvents, firstId) ==
    IF insertEvents = <<>> THEN <<>>
    ELSE <<createConflictEvent(Head(insertEvents), firstId)>>
         \o bulkCreateConflictEvents(Tail(insertEvents), firstId + 1)

\* toISOString().split('T')[0]: the UTC calendar date of an instant.
ToISODate(t) == t \div Day
\* new Date("YYYY-MM-DD"): midnight UTC of that date.
ParseDate(d) == d * Day

\* Array.prototype.sort with (a, b) => b.eventDate - a.eventDate: stable, descending.
RECURSIVE InsertDesc(_, _)
InsertDesc(sorted, e) ==
    IF sorted = <<>> THEN <<e>>
    ELSE IF Head(sorted).eventDate >= e.eventDate
         THEN <<Head(sorted)>> \o InsertDesc(Tail(sorted), e)
         ELSE <<e>> \o sorted

RECURSIVE SortByDateDesc(_)
SortByDateDesc(s) ==
    IF s = <<>> THEN <<>>
    ELSE InsertDesc(SortByDateDesc(SubSeq(s, 1, Len(s) - 1)), s[Len(s)])

\* A ConflictFilters value; an absent field is {} / Null / NoDate, and limit is
\* <<>> when absent and <<N>> when given.
NoFilters ==
    [severity |-> {}, eventTypes |-> {}, countries |-> {}, region |-> Null,
     startDate |-> NoDate, endDate |-> NoDate, limit |-> <<>>]

\* The filters without the region test.
MatchesFiltersButRegion(event, filters) ==
    /\ (filters.severity # {} => event.severity \in filters.severity)
    /\ (filters.eventTypes # {} => event.eventType \in filters.eventTypes)
    /\ (filters.countries # {} => event.country \in filters.countries)
    /\ (filters.startDate # NoDate => event.eventDate >= ParseDate(filters.startDate))
    /\ (filters.endDate # NoDate => event.eventDate <= ParseDate(filters.endDate))

MatchesFilters(event, filters) ==
    /\ (filters.severity # {} => event.severity \in filters.severity)
    /\ (filters.eventTypes # {} => event.eventType \in filters.eventTypes)
    /\ (filters.countries # {} => event.country \in filters.countries)
    /\ (filters.region \notin {Null, ""} => event.region = filters.region)
    /\ (filters.startDate # NoDate => event.eventDate >= ParseDate(filters.startDate))
    /\ (filters.endDate # NoDate => event.eventDate <= ParseDate(filters.endDate))

\* Array.prototype.slice(0, end): a negative end counts from the end.
Slice(s, end) ==
    SubSeq(s, 1, IF end < 0 THEN Max(Len(s) + end, 0) ELSE Min(end, Len(s)))

\* filters?.limit || 1000: an absent limit and a limit of 0 both give 1000.
LimitOf(filters) ==
    IF filters.limit = <<>> THEN DefaultLimit
    ELSE IF filters.limit[1] = 0 THEN DefaultLimit
    ELSE filters.limit[1]

getConflictEvents(store, filters) ==
    LET Keep(event) == MatchesFilters(event, filters)
        sorted == SortByDateDesc(SelectSeq(Values(store), Keep))
    IN  Slice(sorted, LimitOf(filters))

\* getConflictEvent
getConflictEvent(store, id) == MapGet(store, id)

\* { ...existingEvent, ...updateData }: every field of updateData wins.
Merge(existingEvent, updateData) ==
    [f \in DOMAIN existingEvent \cup DOMAIN updateData |->
        IF f \in DOMAIN updateData THEN updateData[f] ELSE existingEvent[f]]

\* updateConflictEvent: the merged event is stored under the key it was found
\* at; an unknown id answers undefined.
updateConflictEvent(store, id, updateData) ==
    LET existingEvent == MapGet(store, id)
    IN  IF existingEvent = <<>>
        THEN [store |-> store, result |-> <<>>]
        ELSE LET updatedEvent == Merge(existingEvent[1], updateData)
             IN  [store |-> MapSet(store, id, updatedEvent), result |-> <<updatedEvent>>]

\* A delete that answers true whatever it found.
deleteConflictEventBlind(store, id) ==
    [store |-> MapDelete(store, id), result |-> TRUE]

\* deleteConflictEvent: the answer of Map.delete.
deleteConflictEvent(store, id) ==
    [store |-> MapDelete(store, id), result |-> id \in Keys(store)]

\* events.reduce((sum, event) => sum + (event.fatalities || 0), 0)
RECURSIVE SumFatalities(_)
SumFatalities(events) ==
    IF events = <<>> THEN 0
    ELSE (IF Head(events).fatalities = NullFatalities THEN 0 ELSE Head(events).fatalities)
         + SumFatalities(Tail(events))

\* events.filter(e => e.severity === severity).length
CountSeverity(events, severity) ==
    Cardinality({i \in 1..Len(events) : events[i].severity = severity})

\* getConflictStats at time t.
getConflictStats(store, filters, t) ==
    LET events == getConflictEvents(store, filters)
        oneDayAgo == t - Day
        types == {events[i].eventType : i \in 1..Len(events)}
    IN  [totalEvents |-> Len(events),
         totalFatalities |-> SumFatalities(events),
         affectedCountries |-> Cardinality({events[i].country : i \in 1..Len(events)}),
         recentEvents |->
             Cardinality({i \in 1..Len(events) : events[i].eventDate >= oneDayAgo}),
         severityCounts |->
             [low |-> CountSeverity(events, "low"),
              medium |-> CountSeverity(events, "medium"),
              high |-> CountSeverity(events, "high"),
              critical |-> CountSeverity(events, "critical")],
         eventTypeCounts |->
             [type \in types |->
                 Cardinality({i \in 1..Len(events) : events[i].eventType = type})]]

\* severityPriority[severity] || 0
SeverityPriority(severity) ==
    IF severity = "critical" THEN 4
    ELSE IF severity = "high" THEN 3
    ELSE IF severity = "medium" THEN 2
    ELSE IF severity = "low" THEN 1
    ELSE 0

\* data.events.reduce((max, event) => ..., 'low')
RECURSIVE TopSeverity(_, _)
TopSeverity(events, max) ==
    IF events = <<>> THEN max
    ELSE TopSeverity(Tail(events),
                     IF SeverityPriority(Head(events).severity) > SeverityPriority(max)
                     THEN Head(events).severity ELSE max)

\* An insertion that puts a hotspot before those of the same eventCount.
InsertByCountBeforeTies(sorted, h) ==
    LET ahead == {i \in 1..Len(sorted) : sorted[i].eventCount > h.eventCount}
    IN  SubSeq(sorted, 1, Cardinality(ahead)) \o <<h>>
        \o SubSeq(sorted, Cardinality(ahead) + 1, Len(sorted))

\* hotspots.sort((a, b) => b.eventCount - a.eventCount): stable, descending.
InsertByCount(sorted, h) ==
    LET ahead == {i \in 1..Len(sorted) : sorted[i].eventCount >= h.eventCount}
    IN  SubSeq(sorted, 1, Cardinality(ahead)) \o <<h>>
        \o SubSeq(sorted, Cardinality(ahead) + 1, Len(sorted))

RECURSIVE SortByCountDesc(_)
SortByCountDesc(s) ==
    IF s = <<>> THEN <<>>
    ELSE InsertByCount(SortByCountDesc(SubSeq(s, 1, Len(s) - 1)), s[Len(s)])

\* getHotspots; limit is <<>> when the caller gives none.
getHotspots(store, limit) ==
    LET events == Values(store)
        countries == Distinct([i \in 1..Len(events) |-> events[i].country])
        Hotspot(country) ==
            LET Of(event) == event.country = country
                data == SelectSeq(events, Of)
            IN  [country |-> country,
                 region |-> IF Truthy(data[1].region) THEN data[1].region ELSE "",
                 eventCount |-> Len(data),
                 severity |-> TopSeverity(data, "low")]
        hotspots == [i \in 1..Len(countries) |-> Hotspot(countries[i])]
    IN  Slice(SortByCountDesc(hotspots), IF limit = <<>> THEN HotspotLimit ELSE limit[1])

\* The query of one monitoring cycle, issued at time t.
recentEventsFilter(t) ==
    [NoFilters EXCEPT !.limit = <<MonitorLimit>>,
                      !.severity = {"high", "critical"},
                      !.startDate = ToISODate(t - Day)]

\* ----------------------------------------------------- ConflictAIAnalyzer
\* What the OpenAI call of analyzeConflictEvents can come back with: a rejection
\* (error, timeout, unparsable body: ok = FALSE) or a parsed JSON object, whose
\* fields may be missing (Null / 0) or out of range.
BatchOutcomes ==
    { [ok |-> FALSE, severity |-> Null, confidence |-> 0, riskLevel |-> 0],
      [ok |-> TRUE, severity |-> "high", confidence |-> 8, riskLevel |-> 7],
      [ok |-> TRUE, severity |-> Null, confidence |-> 0, riskLevel |-> 12] }

\* analyzeConflictEvents without its catch branch's verdict: a failed call is
\* answered with the defaults of a parsed but empty response.
analyzeConflictEventsNoFallback(events, outcome) ==
    IF Len(events) = 0
    THEN [severity |-> "low", confidence |-> FullConfidence, riskLevel |-> 1]
    ELSE IF outcome.ok /\ outcome.severity # Null
    THEN [severity |-> outcome.severity,
          confidence |-> Max(0, Min(FullConfidence, outcome.confidence)),
          riskLevel |-> Max(1, Min(MaxRisk, outcome.riskLevel))]
    ELSE [severity |-> "low", confidence |-> DefaultConfidence,
          riskLevel |-> FallbackRisk]

analyzeConflictEvents(events, outcome) ==
    IF Len(events) = 0
    THEN [severity |-> "low", confidence |-> FullConfidence, riskLevel |-> 1]
    ELSE IF outcome.ok
    THEN [severity |-> IF outcome.severity = Null THEN "low" ELSE outcome.severity,
          confidence |-> Max(0, Min(FullConfidence,
                             IF outcome.confidence = 0 THEN DefaultConfidence
                             ELSE outcome.confidence)),
          riskLevel |-> Max(1, Min(MaxRisk,
                            IF outcome.riskLevel = 0 THEN FallbackRisk
                            ELSE outcome.riskLevel))]
    ELSE [severity |-> "medium", confidence |-> FallbackConfidence,
          riskLevel |-> FallbackRisk]

\* What the OpenAI call of generateConflictAlert can come back with.
AlertOutcomes == {"text", "error"}

\* response content || fallback text, and the fallback text of the catch branch.
generateConflictAlert(event, outcome) ==
    IF outcome = "text" THEN "generated" ELSE "fallback"

\* ----------------------------------------------- ConflictMonitoringServer
ClientSet == Range(clients)

\* A delete that leaves the Set as it is.
SetKeep(cl, ws) == cl

\* Set.prototype.delete on the insertion-ordered Set.
SetDelete(cl, ws) == LET Other(x) == x # ws IN SelectSeq(cl, Other)

\* A broadcast visits the clients in insertion order.  ws.send is an external
\* call that may throw; f = 0 is a broadcast in which no send throws, f = i is
\* one in which the send to the i-th client (an OPEN one) throws, which leaves
\* forEach at that point.
FailPoints(cl, rs) == {0} \cup {i \in 1..Len(cl) : rs[cl[i]] = "OPEN"}

Visited(cl, f) == IF f = 0 THEN 1..Len(cl) ELSE 1..f

\* sendToClient: send only when the connection is OPEN.
sendToClient(rcv, ws, rs, entry) ==
    IF rs[ws] = "OPEN" THEN [rcv EXCEPT ![ws] = Append(@, entry)] ELSE rcv

RECURSIVE broadcastFrom(_, _, _, _, _, _)
broadcastFrom(rcv, cl, rs, entry, f, i) ==
    IF i > Len(cl) \/ (f # 0 /\ i >= f) THEN rcv
    ELSE broadcastFrom(sendToClient(rcv, cl[i], rs, entry), cl, rs, entry, f, i + 1)

broadcast(rcv, cl, rs, entry, f) == broadcastFrom(rcv, cl, rs, entry, f, 1)

\* The record of one broadcast call, for the claims about a single publish.
BroadcastRecord(cl, rs, c, msg, f) ==
    [cycle |-> c, type |-> msg.type,
     open |-> {cl[i] : i \in {j \in 1..Len(cl) : rs[cl[j]] = "OPEN"}},
     skipped |-> {cl[i] : i \in {j \in Visited(cl, f) : rs[cl[j]] # "OPEN"}},
     failed |-> IF f = 0 THEN {} ELSE {cl[f]},
     delivered |-> {cl[i] : i \in {j \in Visited(cl, f) : rs[cl[j]] = "OPEN" /\ j # f}},
     members |-> Range(cl)]

NoBroadcast ==
    [cycle |-> 0, type |-> Null, open |-> {}, skipped |-> {}, failed |-> {},
     delivered |-> {}, members |-> {}]

\* The messages of a cycle.

\* Regions without .filter(Boolean).
RegionsUnfiltered(events) ==
    Distinct([i \in 1..Len(events) |-> events[i].region])

Regions(events) ==
    Distinct(SelectSeq([i \in 1..Len(events) |-> events[i].region], Truthy))

AnalysisUpdate(analysis, recentEvents) ==
    [type |-> "analysis_update",
     data |-> [analysis |-> analysis, eventCount |-> Len(recentEvents),
               regions |-> Regions(recentEvents)]]

ConflictAlert(event, alert) ==
    [type |-> "conflict_alert",
     data |-> [event |-> event, alert |-> alert, severity |-> event.severity]]

Heartbeat(status, cl) ==
    [type |-> "heartbeat", data |-> [status |-> status, clientCount |-> Len(cl)]]

IsCritical(e) == e.severity = "critical"

\* criticalEvents without .slice(0, 3).
CriticalSliceUnlimited(recentEvents) == SelectSeq(recentEvents, IsCritical)

\* criticalEvents.slice(0, 3)
CriticalSlice(recentEvents) ==
    LET criticalEvents == SelectSeq(recentEvents, IsCritical)
    IN  SubSeq(criticalEvents, 1, Min(AlertLimit, Len(criticalEvents)))

\* What the callback does from one suspension point to the next: the messages it
\* broadcasts, in order, and where it suspends or ends if none of them throws.
TickPlan(recentEvents, cl) ==
    IF Len(recentEvents) > 0
    THEN [msgs |-> <<>>, pc |-> "analysis", idx |-> 0]
    ELSE [msgs |-> <<Heartbeat("monitoring", cl)>>, pc |-> "done", idx |-> 0]

AnalysisPlan(recentEvents, analysis, cl) ==
    IF Len(CriticalSlice(recentEvents)) > 0
    THEN [msgs |-> <<AnalysisUpdate(analysis, recentEvents)>>, pc |-> "alert", idx |-> 1]
    ELSE [msgs |-> <<AnalysisUpdate(analysis, recentEvents), Heartbeat("monitoring", cl)>>,
          pc |-> "done", idx |-> 0]

\* The alert loop with the heartbeat sent before the last alert.
AlertPlanHeartbeatFirst(recentEvents, idx, alert, cl) ==
    LET slice == CriticalSlice(recentEvents)
    IN  IF idx < Len(slice)
        THEN [msgs |-> <<ConflictAlert(slice[idx], alert)>>, pc |-> "alert", idx |-> idx + 1]
        ELSE [msgs |-> <<Heartbeat("monitoring", cl), ConflictAlert(slice[idx], alert)>>,
              pc |-> "done", idx |-> 0]

AlertPlan(recentEvents, idx, alert, cl) ==
    LET slice == CriticalSlice(recentEvents)
    IN  IF idx < Len(slice)
        THEN [msgs |-> <<ConflictAlert(slice[idx], alert)>>, pc |-> "alert", idx |-> idx + 1]
        ELSE [msgs |-> <<ConflictAlert(slice[idx], alert), Heartbeat("monitoring", cl)>>,
              pc |-> "done", idx |-> 0]

\* Broadcast msgs in order; the first send that throws ends the try block.
RECURSIVE Publish(_, _, _, _, _, _, _, _)
Publish(rcv, pubc, last, cl, rs, c, msgs, fs) ==
    IF msgs = <<>> THEN [rcv |-> rcv, pubc |-> pubc, last |-> last, thrown |-> FALSE]
    ELSE LET msg == Head(msgs)
             f == Head(fs)
             rcv2 == broadcast(rcv, cl, rs, [cycle |-> c, msg |-> msg], f)
             pubc2 == Append(pubc, msg)
             last2 == BroadcastRecord(cl, rs, c, msg, f)
         IN  IF f # 0
             THEN [rcv |-> rcv2, pubc |-> pubc2, last |-> last2, thrown |-> TRUE]
             ELSE Publish(rcv2, pubc2, last2, cl, rs, c, Tail(msgs), Tail(fs))

\* A caller that has not called yet.
IdleCaller == [pc |-> "idle", result |-> <<>>]

\* No store call yet.
NoCall == [n |-> 0, op |-> "none"]

IdleCycle == [pc |-> "idle", start |-> 0, events |-> <<>>, idx |-> 0, batchOk |-> TRUE]

\* Run one stretch of cycle c: publish the plan's messages and move to its pc,
\* or to the catch block if a send threw.
RunPlan(c, plan, cyc) ==
    \E fs \in [1..Len(plan.msgs) -> FailPoints(clients, readyState)] :
        LET r == Publish(received, pub[c], lastBroadcast, clients, readyState, c,
                         plan.msgs, fs)
        IN  /\ received' = r.rcv
            /\ pub' = [pub EXCEPT ![c] = r.pubc]
            /\ lastBroadcast' = r.last
            /\ cycle' = [cycle EXCEPT ![c] =
                            IF r.thrown THEN [cyc EXCEPT !.pc = "caught"]
                            ELSE [cyc EXCEPT !.pc = plan.pc, !.idx = plan.idx]]

\* The exploration is split in regimes, so that its size is their sum and not
\* their product:
\*   churn   - connections come and go around one cycle that raises an alert (the
\*             server is constructed while the sample events are recent), and
\*             the monitor may be stopped;
\*   overlap - one connection and overlapping cycles over the sample store, and
\*             the monitor may be stopped;
\*   alerts  - one connection and two overlapping cycles that each raise an alert;
\*   refresh - one connection, one cycle, a refreshed store and a moving clock.
Budgets ==
    { [sockets |-> MaxSockets, cycles |-> 1, events |-> Len(SampleEvents),
       start |-> EarlyNow, now |-> EarlyNow, stop |-> TRUE],
      [sockets |-> 1, cycles |-> MaxCycles, events |-> Len(SampleEvents),
       start |-> StartNow, now |-> StartNow, stop |-> TRUE],
      [sockets |-> 1, cycles |-> Min(MaxCycles, 2), events |-> Len(SampleEvents),
       start |-> EarlyNow, now |-> EarlyNow, stop |-> FALSE],
      [sockets |-> 1, cycles |-> 1, events |-> MaxEvents,
       start |-> StartNow, now |-> MaxNow, stop |-> FALSE] }

InitWith(b) ==
    /\ budget = b
    /\ conflictEvents = Entries(SampleEvents)
    /\ nextId = Len(SampleEvents) + 1
    /\ clients = <<>>
    /\ readyState = [w \in Sockets |-> "NONE"]
    /\ monitoringInterval = "armed"
    /\ now = budget.start
    /\ started = 0
    /\ cycle = [c \in Cycles |-> IdleCycle]
    /\ pub = [c \in Cycles |-> <<>>]
    /\ received = [w \in Sockets |-> <<>>]
    /\ lastBroadcast = NoBroadcast
    /\ signalled = {}
    /\ storeCall = NoCall
    /\ callers = [k \in Callers |-> IdleCaller]

Init == \E b \in Budgets : InitWith(b)

\* The timer callback of a scheduler that a failed cycle brings down: no tick
\* runs once a cycle has ended in its catch block.
TickUnlessFailed ==
    /\ \A d \in Cycles : cycle[d].pc # "caught"
    /\ monitoringInterval = "armed"
    /\ started < budget.cycles
    /\ LET c == started + 1
           recentEvents == getConflictEvents(conflictEvents, recentEventsFilter(now))
           cyc == [IdleCycle EXCEPT !.start = now, !.events = recentEvents]
       IN  /\ started' = c
           /\ RunPlan(c, TickPlan(recentEvents, clients), cyc)
    /\ UNCHANGED <<conflictEvents, nextId, clients, readyState, monitoringInterval, now,
                   signalled, storeCall, budget,
                   callers>>

\* The timer callback of a scheduler whose pending tick survives clearInterval.
TickAfterStop ==
    /\ started < budget.cycles
    /\ LET c == started + 1
           recentEvents == getConflictEvents(conflictEvents, recentEventsFilter(now))
           cyc == [IdleCycle EXCEPT !.start = now, !.events = recentEvents]
       IN  /\ started' = c
           /\ RunPlan(c, TickPlan(recentEvents, clients), cyc)
    /\ UNCHANGED <<conflictEvents, nextId, clients, readyState, monitoringInterval, now,
                   signalled, storeCall, budget,
                   callers>>

\* The interval timer fires: the callback queries the store and runs to its
\* first OpenAI call, or to its end when nothing matched.
Tick ==
    /\ monitoringInterval = "armed"
    /\ started < budget.cycles
    /\ LET c == started + 1
           recentEvents == getConflictEvents(conflictEvents, recentEventsFilter(now))
           cyc == [IdleCycle EXCEPT !.start = now, !.events = recentEvents]
       IN  /\ started' = c
           /\ RunPlan(c, TickPlan(recentEvents, clients), cyc)
    /\ UNCHANGED <<conflictEvents, nextId, clients, readyState, monitoringInterval, now,
                   signalled,
                   storeCall, budget,
                   callers>>

\* The OpenAI call of analyzeConflictEvents settles.
AnalysisReturns(c) ==
    /\ cycle[c].pc = "analysis"
    /\ \E outcome \in BatchOutcomes :
        LET analysis == analyzeConflictEvents(cycle[c].events, outcome)
            cyc == [cycle[c] EXCEPT !.batchOk = outcome.ok]
        IN  RunPlan(c, AnalysisPlan(cycle[c].events, analysis, clients), cyc)
    /\ UNCHANGED <<conflictEvents, nextId, clients, readyState, monitoringInterval,
                   now, started, signalled,
                   storeCall, budget,
                   callers>>

\* The OpenAI call of generateConflictAlert settles.
AlertReturns(c) ==
    /\ cycle[c].pc = "alert"
    /\ \E outcome \in AlertOutcomes :
        LET event == CriticalSlice(cycle[c].events)[cycle[c].idx]
            alert == generateConflictAlert(event, outcome)
        IN  RunPlan(c, AlertPlan(cycle[c].events, cycle[c].idx, alert, clients), cycle[c])
    /\ UNCHANGED <<conflictEvents, nextId, clients, readyState, monitoringInterval,
                   now, started, signalled,
                   storeCall, budget,
                   callers>>

\* stopMonitoring: clearInterval and null; a second call finds null and does
\* nothing, which is the same state.
stopMonitoring ==
    /\ budget.stop
    /\ monitoringInterval' = Null
    /\ UNCHANGED <<conflictEvents, nextId, clients, readyState, now, started, cycle,
                   pub, received, lastBroadcast, signalled,
                   storeCall, budget,
                   callers>>

\* A connection handler that greets before it registers: the heartbeat counts
\* the subscribers without the new one.
ConnectGreetsFirst(ws) ==
    /\ ws <= budget.sockets
    /\ readyState[ws] = "NONE"
    /\ \A v \in Sockets : v < ws => readyState[v] # "NONE"
    /\ readyState' = [readyState EXCEPT ![ws] = "OPEN"]
    /\ clients' = Append(clients, ws)
    /\ received' = sendToClient(received, ws, readyState',
                                [cycle |-> 0, msg |-> Heartbeat("connected", clients)])
    /\ UNCHANGED <<conflictEvents, nextId, monitoringInterval, now, started, cycle,
                   pub, lastBroadcast, signalled, storeCall, budget,
                   callers>>

\* wss.on('connection'): a new, OPEN connection.
Connect(ws) ==
    /\ ws <= budget.sockets
    /\ readyState[ws] = "NONE"
    /\ \A v \in Sockets : v < ws => readyState[v] # "NONE"
    /\ readyState' = [readyState EXCEPT ![ws] = "OPEN"]
    /\ clients' = Append(clients, ws)
    /\ received' = sendToClient(received, ws, readyState',
                                [cycle |-> 0, msg |-> Heartbeat("connected", clients')])
    /\ UNCHANGED <<conflictEvents, nextId, monitoringInterval, now, started, cycle,
                   pub, lastBroadcast, signalled,
                   storeCall, budget,
                   callers>>

\* The connection starts closing (a close frame, a lost peer): readyState leaves
\* OPEN before the 'close' event is emitted.
BeginClose(ws) ==
    /\ readyState[ws] = "OPEN"
    /\ readyState' = [readyState EXCEPT ![ws] = "CLOSING"]
    /\ UNCHANGED <<conflictEvents, nextId, clients, monitoringInterval, now, started,
                   cycle, pub, received, lastBroadcast, signalled,
                   storeCall, budget,
                   callers>>

\* A 'close' event that finds no handler registered for it.
OnCloseUnhandled(ws) ==
    /\ readyState[ws] \in {"OPEN", "CLOSING"}
    /\ readyState' = [readyState EXCEPT ![ws] = "CLOSED"]
    /\ signalled' = signalled \cup {ws}
    /\ UNCHANGED <<conflictEvents, nextId, clients, monitoringInterval, now, started,
                   cycle, pub, received, lastBroadcast, storeCall, budget,
                   callers>>

\* ws.on('close')
OnClose(ws) ==
    /\ readyState[ws] \in {"OPEN", "CLOSING"}
    /\ readyState' = [readyState EXCEPT ![ws] = "CLOSED"]
    /\ clients' = SetDelete(clients, ws)
    /\ signalled' = signalled \cup {ws}
    /\ UNCHANGED <<conflictEvents, nextId, monitoringInterval, now, started, cycle,
                   pub, received, lastBroadcast, storeCall, budget,
                   callers>>

\* ws.on('error'): ws moves the connection to CLOSING before it emits 'error'.
OnError(ws) ==
    /\ readyState[ws] \in {"OPEN", "CLOSING"}
    /\ readyState' = [readyState EXCEPT ![ws] = "CLOSING"]
    /\ clients' = SetDelete(clients, ws)
    /\ signalled' = signalled \cup {ws}
    /\ UNCHANGED <<conflictEvents, nextId, monitoringInterval, now, started, cycle,
                   pub, received, lastBroadcast, storeCall, budget,
                   callers>>

\* POST /api/refresh-data: the fetched ACLED records are appended to the store.
Batches ==
    { << convertACLEDEvent(4 * Day, "Sudan", "Africa", "Battles", 60),
         convertACLEDEvent(4 * Day + 1, "Sudan", "", "Battles", 75),
         convertACLEDEvent(4 * Day, "Yemen", Null, "Riots", 50),
         convertACLEDEvent(4 * Day + 1, "Mali", "Africa", "Battles", 90) >>,
      << convertACLEDEvent(4 * Day + 1, "Ukraine", "Europe", "Battles", 15),
         convertACLEDEvent(4 * Day, "Myanmar", "Asia", "Protests", 0) >> }

RefreshData ==
    /\ \E batch \in Batches :
        /\ Len(conflictEvents) + Len(batch) <= budget.events
        /\ conflictEvents' =
              conflictEvents \o Entries(bulkCreateConflictEvents(batch, nextId))
        /\ nextId' = nextId + Len(batch)
    /\ UNCHANGED <<clients, readyState, monitoringInterval, now, started, cycle, pub,
                   received, lastBroadcast, signalled,
                   storeCall, budget,
                   callers>>

\* Time passes.
AdvanceClock ==
    /\ now < budget.now
    /\ now' = now + 1
    /\ UNCHANGED <<conflictEvents, nextId, clients, readyState, monitoringInterval,
                   started, cycle, pub, received, lastBroadcast, signalled,
                   storeCall, budget,
                   callers>>

Next ==
    \/ Tick
    \/ \E c \in Cycles : AnalysisReturns(c)
    \/ \E c \in Cycles : AlertReturns(c)
    \/ stopMonitoring
    \/ \E ws \in Sockets : Connect(ws)
    \/ \E ws \in Sockets : BeginClose(ws)
    \/ \E ws \in Sockets : OnClose(ws)
    \/ \E ws \in Sockets : OnError(ws)
    \/ RefreshData
    \/ AdvanceClock

Spec == Init /\ [][Next]_vars

\* Every OpenAI call settles, except those of the first cycle, which may never
\* return.  (Each tick of the timer is then followed up to its heartbeat; that
\* the timer keeps firing while armed is not needed for that.)
SpecFair ==
    /\ Spec
    /\ \A c \in Cycles \ {1} : WF_vars(AnalysisReturns(c)) /\ WF_vars(AlertReturns(c))

\* ------------------------------------------------ MemStorage on its own
\* The store as a client of IStorage drives it: any sequence of its methods on
\* the store the constructor filled.
StoreBudget ==
    [sockets |-> 0, cycles |-> 0, events |-> MaxEvents,
     start |-> StartNow, now |-> StartNow, stop |-> FALSE]

\* InsertConflictEvent values: one without region and with 0 fatalities, one
\* dated like two of the sample events and without fatalities.
NewEvents ==
    { convertACLEDEvent(4 * Day, "Yemen", Null, "Riots", 0),
      [eventDate |-> 3 * Day, country |-> "Ukraine", region |-> "Europe",
       eventType |-> "Battles", fatalities |-> NullFatalities, severity |-> "high"] }

\* Partial<ConflictEvent> values: any subset of the fields, id included, and
\* severity any text.
Updates ==
    { [id |-> 1],
      [severity |-> "severe"],
      [eventDate |-> 4 * Day, severity |-> "critical", fatalities |-> 70] }

\* ConflictFilters values.
FilterSpecs ==
    { NoFilters,
      [NoFilters EXCEPT !.severity = {"high", "critical"}],
      [NoFilters EXCEPT !.eventTypes = {"Battles"}, !.countries = {"Ukraine", "Syria"}],
      [NoFilters EXCEPT !.region = "Middle East", !.startDate = 0, !.endDate = 3],
      [NoFilters EXCEPT !.startDate = 2, !.endDate = 3, !.limit = <<1>>],
      [NoFilters EXCEPT !.severity = {"low", "medium"}, !.region = ""],
      [NoFilters EXCEPT !.limit = <<2>>],
      [NoFilters EXCEPT !.limit = <<0>>],
      [NoFilters EXCEPT !.limit = <<0 - 1>>] }

\* An id no event was stored under, and all the ids a call can name (a call
\* names the unknown id or one that was handed out, stored or deleted since):
\* every writing call hands out at most MaxEvents fresh ones.
UnknownId == 0
Ids == UnknownId..(MaxEvents * (MaxCalls + 1))

Create(insertEvent) ==
    /\ storeCall.n < MaxCalls
    /\ Len(conflictEvents) < budget.events
    /\ LET event == createConflictEvent(insertEvent, nextId)
       IN  /\ conflictEvents' = MapSet(conflictEvents, nextId, event)
           /\ storeCall' = [n |-> storeCall.n + 1, op |-> "create", result |-> event]
    /\ nextId' = nextId + 1
    /\ UNCHANGED <<clients, readyState, monitoringInterval, now, started, cycle, pub,
                   received, lastBroadcast, signalled, budget,
                   callers>>

\* A bulk load that replaces what the store held.
BulkCreateReplacing(insertEvents) ==
    /\ storeCall.n < MaxCalls
    /\ Len(conflictEvents) + Len(insertEvents) <= budget.events
    /\ LET events == bulkCreateConflictEvents(insertEvents, nextId)
       IN  /\ conflictEvents' = Entries(events)
           /\ storeCall' = [n |-> storeCall.n + 1, op |-> "bulkCreate",
                            insertEvents |-> insertEvents, result |-> events]
    /\ nextId' = nextId + Len(insertEvents)
    /\ UNCHANGED <<clients, readyState, monitoringInterval, now, started, cycle, pub,
                   received, lastBroadcast, signalled, budget, callers>>

BulkCreate(insertEvents) ==
    /\ storeCall.n < MaxCalls
    /\ Len(conflictEvents) + Len(insertEvents) <= budget.events
    /\ LET events == bulkCreateConflictEvents(insertEvents, nextId)
       IN  /\ conflictEvents' = conflictEvents \o Entries(events)
           /\ storeCall' = [n |-> storeCall.n + 1, op |-> "bulkCreate",
                            insertEvents |-> insertEvents, result |-> events]
    /\ nextId' = nextId + Len(insertEvents)
    /\ UNCHANGED <<clients, readyState, monitoringInterval, now, started, cycle, pub,
                   received, lastBroadcast, signalled, budget,
                   callers>>

Update(id, updateData) ==
    /\ storeCall.n < MaxCalls
    /\ id \in UnknownId..(nextId - 1)
    /\ LET r == updateConflictEvent(conflictEvents, id, updateData)
       IN  /\ conflictEvents' = r.store
           /\ storeCall' = [n |-> storeCall.n + 1, op |-> "update", id |-> id,
                            updateData |-> updateData, result |-> r.result]
    /\ UNCHANGED <<nextId, clients, readyState, monitoringInterval, now, started, cycle,
                   pub, received, lastBroadcast, signalled, budget,
                   callers>>

Delete(id) ==
    /\ storeCall.n < MaxCalls
    /\ id \in UnknownId..(nextId - 1)
    /\ LET r == deleteConflictEvent(conflictEvents, id)
       IN  /\ conflictEvents' = r.store
           /\ storeCall' = [n |-> storeCall.n + 1, op |-> "delete", id |-> id,
                            result |-> r.result]
    /\ UNCHANGED <<nextId, clients, readyState, monitoringInterval, now, started, cycle,
                   pub, received, lastBroadcast, signalled, budget,
                   callers>>

Query(filters) ==
    /\ storeCall' = [n |-> storeCall.n, op |-> "query", filters |-> filters,
                     result |-> getConflictEvents(conflictEvents, filters)]
    /\ UNCHANGED <<conflictEvents, nextId, clients, readyState, monitoringInterval, now,
                   started, cycle, pub, received, lastBroadcast, signalled, budget,
                   callers>>

Stats(filters) ==
    /\ storeCall' = [n |-> storeCall.n, op |-> "stats", filters |-> filters,
                     result |-> getConflictStats(conflictEvents, filters, now)]
    /\ UNCHANGED <<conflictEvents, nextId, clients, readyState, monitoringInterval, now,
                   started, cycle, pub, received, lastBroadcast, signalled, budget,
                   callers>>

\* The limits a caller of getHotspots gives.
HotspotLimits == {<<>>, <<0>>, <<2>>}

Hotspots(limit) ==
    /\ storeCall' = [n |-> storeCall.n, op |-> "hotspots", limit |-> limit,
                     result |-> getHotspots(conflictEvents, limit)]
    /\ UNCHANGED <<conflictEvents, nextId, clients, readyState, monitoringInterval, now,
                   started, cycle, pub, received, lastBroadcast, signalled, budget,
                   callers>>

NextStore ==
    \/ \E insertEvent \in NewEvents : Create(insertEvent)
    \/ \E insertEvents \in Batches : BulkCreate(insertEvents)
    \/ \E id \in Ids : \E updateData \in Updates : Update(id, updateData)
    \/ \E id \in Ids : Delete(id)
    \/ \E filters \in FilterSpecs : Query(filters)
    \/ \E filters \in FilterSpecs : Stats(filters)
    \/ \E limit \in HotspotLimits : Hotspots(limit)

SpecStore == InitWith(StoreBudget) /\ [][NextStore]_vars

\* ------------------------------------- concurrent createConflictEvent calls
\* A caller calls createConflictEvent.  The body of the async function holds no
\* await, so it runs to its return, Map.set included, inside the call; the
\* caller is handed a promise and waits for it while other callers run.
CallCreate(k, insertEvent) ==
    /\ callers[k].pc = "idle"
    /\ Len(conflictEvents) < budget.events
    /\ LET event == createConflictEvent(insertEvent, nextId)
       IN  /\ conflictEvents' = MapSet(conflictEvents, nextId, event)
           /\ callers' = [callers EXCEPT ![k] = [pc |-> "awaiting", result |-> <<event>>]]
           /\ storeCall' = [n |-> storeCall.n + 1, op |-> "create", result |-> event]
    /\ nextId' = nextId + 1
    /\ UNCHANGED <<clients, readyState, monitoringInterval, now, started, cycle, pub,
                   received, lastBroadcast, signalled, budget>>

\* The promise resolves and the caller resumes with the stored event.
CreateReturns(k) ==
    /\ callers[k].pc = "awaiting"
    /\ callers' = [callers EXCEPT ![k].pc = "returned"]
    /\ UNCHANGED <<conflictEvents, nextId, clients, readyState, monitoringInterval, now,
                   started, cycle, pub, received, lastBroadcast, signalled, storeCall,
                   budget>>

NextInsert ==
    \/ \E k \in Callers : \E insertEvent \in NewEvents : CallCreate(k, insertEvent)
    \/ \E k \in Callers : CreateReturns(k)
    \/ Query(NoFilters)

SpecInsert == InitWith(StoreBudget) /\ [][NextInsert]_vars

\* ------------------------------------------------------------ properties
Running(c) == cycle[c].pc \in {"analysis", "alert"}
Ended(c) == cycle[c].pc \in {"done", "caught"}
OfType(msgs, type) == LET Is(m) == m.type = type IN SelectSeq(msgs, Is)

\* C1: at most one monitoring cycle is running at any time.
AtMostOneCycleRunning == Cardinality({c \in Cycles : Running(c)}) <= 1

\* C2: when a send of a broadcast fails, every other registered open subscriber
\* still receives the message of that broadcast.
SubscriberIsolation ==
    lastBroadcast.failed # {} =>
        (lastBroadcast.open \ lastBroadcast.failed) \subseteq lastBroadcast.delivered

\* C3: a send failure never reaches the monitoring cycle: no cycle ends in its
\* catch block.
SendFailureNotPropagated == \A c \in Cycles : cycle[c].pc # "caught"

\* C4: after a broadcast, no subscriber it found not OPEN, or whose send failed,
\* is still in the subscriber set.
BroadcastRemovesDeadSubscribers ==
    (lastBroadcast.skipped \cup lastBroadcast.failed) \cap lastBroadcast.members = {}

\* C5: every monitoring cycle that has ended published exactly one heartbeat.
EveryCycleOneHeartbeat ==
    \A c \in Cycles : Ended(c) => Len(OfType(pub[c], "heartbeat")) = 1

\* C6: a cycle publishes an analysis_update only if its query matched something,
\* and an ended cycle whose query matched something has published exactly one;
\* the message carries the number of matched events and their distinct non-empty
\* regions; an ended cycle without a match published one heartbeat and nothing else.
AnalysisUpdateIffMatched ==
    \A c \in Cycles :
        LET events == cycle[c].events
            updates == OfType(pub[c], "analysis_update")
        IN  /\ Len(updates) <= 1
            /\ (Len(updates) = 1 => Len(events) > 0)
            /\ (Ended(c) /\ Len(events) > 0 => Len(updates) = 1)
            /\ \A i \in 1..Len(updates) :
                LET regions == updates[i].data.regions
                IN  /\ updates[i].data.eventCount = Len(events)
                    /\ Range(regions)
                         = {events[k].region : k \in 1..Len(events)} \ {Null, ""}
                    /\ Cardinality(Range(regions)) = Len(regions)
            /\ (Ended(c) /\ Len(events) = 0 =>
                    /\ Len(pub[c]) = 1
                    /\ pub[c][1].type = "heartbeat")

\* C6 witness: an ended cycle whose matched events include one without a region
\* and two of the same region, with its analysis_update published.
AnalysisUpdateWitness ==
    \E c \in Cycles :
        /\ cycle[c].pc = "done"
        /\ \E k \in 1..Len(cycle[c].events) : cycle[c].events[k].region \in {Null, ""}
        /\ \E k, l \in 1..Len(cycle[c].events) :
              k # l /\ cycle[c].events[k].region = cycle[c].events[l].region
        /\ Len(OfType(pub[c], "analysis_update")) = 1

TypeRank(type) ==
    CASE type = "analysis_update" -> 1
      [] type = "conflict_alert" -> 2
      [] type = "heartbeat" -> 3

\* C7: the messages of one cycle reach a subscriber in the order analysis_update,
\* conflict_alert, heartbeat, and nothing of the cycle follows its heartbeat.
PerCycleDeliveryOrder ==
    \A ws \in Sockets : \A i, j \in 1..Len(received[ws]) :
        (i < j /\ received[ws][i].cycle = received[ws][j].cycle
               /\ received[ws][i].cycle # 0) =>
            /\ TypeRank(received[ws][i].msg.type) <= TypeRank(received[ws][j].msg.type)
            /\ received[ws][i].msg.type # "heartbeat"

\* C7 witness: a subscriber has received the analysis_update, a conflict_alert
\* and the heartbeat of one cycle.
PerCycleDeliveryWitness ==
    \E ws \in Sockets : \E c \in Cycles :
        \A type \in {"analysis_update", "conflict_alert", "heartbeat"} :
            \E i \in 1..Len(received[ws]) :
                received[ws][i].cycle = c /\ received[ws][i].msg.type = type

\* C8: the conflict_alerts of a cycle are at most 3, each for a critical event of
\* the matched set, and they are the leading critical events of the matched set
\* in query order: all of the first 3 once the cycle has completed.
AlertsAreFirstCriticalEvents ==
    \A c \in Cycles :
        LET alerts == OfType(pub[c], "conflict_alert")
            critical == SelectSeq(cycle[c].events, IsCritical)
        IN  /\ Len(alerts) <= 3
            /\ Len(alerts) <= Len(critical)
            /\ \A i \in 1..Len(alerts) :
                /\ alerts[i].data.event = critical[i]
                /\ alerts[i].data.event.severity = "critical"
                /\ alerts[i].data.event \in Range(cycle[c].events)
            /\ (cycle[c].pc = "done" => Len(alerts) = Min(3, Len(critical)))

\* C8 witness: a completed cycle that matched more than 3 critical events.
AlertsWitness ==
    \E c \in Cycles :
        /\ cycle[c].pc = "done"
        /\ Len(SelectSeq(cycle[c].events, IsCritical)) > 3
        /\ Len(OfType(pub[c], "conflict_alert")) = 3

\* C9: the events a cycle hands to the Analyzer are at most 50, each high or
\* critical and each dated within the 24 hours before the cycle's start.
AnalyzedEventsWithinLastDay ==
    \A c \in Cycles :
        /\ Len(cycle[c].events) <= 50
        /\ \A k \in 1..Len(cycle[c].events) :
            LET e == cycle[c].events[k]
            IN  /\ e.severity \in {"high", "critical"}
                /\ e.eventDate >= cycle[c].start - Day
                /\ e.eventDate <= cycle[c].start

\* C10: a cycle whose batch Analyzer call failed publishes an analysis_update
\* with severity "medium" and confidence 0.3, and goes on as after a success.
FailedAnalysisPublishesDefault ==
    \A c \in Cycles :
        ~cycle[c].batchOk =>
            /\ cycle[c].pc \in {"alert", "done", "caught"}
            /\ Len(pub[c]) >= 1
            /\ pub[c][1].type = "analysis_update"
            /\ pub[c][1].data.analysis.severity = "medium"
            /\ pub[c][1].data.analysis.confidence = 3

\* C10 witness: a completed cycle whose batch Analyzer call failed.
FailedAnalysisWitness ==
    \E c \in Cycles : ~cycle[c].batchOk /\ cycle[c].pc = "done"

\* C11: a cycle that failed leaves the scheduler running: the timer is still
\* armed unless stopMonitoring may have been called, and while it is armed (and
\* explored ticks remain) the next tick starts a new cycle.
SchedulerSurvivesFailure ==
    (\E c \in Cycles : cycle[c].pc = "caught") =>
        /\ (~budget.stop => monitoringInterval = "armed")
        /\ (monitoringInterval = "armed" /\ started < budget.cycles => ENABLED Tick)

\* C11 witness: the first cycle has failed at a publish while the timer is armed
\* and its next tick is still to come.
SchedulerSurvivesWitness ==
    /\ cycle[1].pc = "caught"
    /\ started = 1
    /\ started < budget.cycles
    /\ monitoringInterval = "armed"

\* C12: once stopMonitoring has run, no step starts a monitoring cycle and the
\* timer stays cleared, whatever was in progress or pending when it was called
\* and however often it is called again.
NoCycleAfterStop ==
    [][monitoringInterval = Null =>
          /\ started' = started
          /\ monitoringInterval' = Null
          /\ \A c \in Cycles : cycle[c].pc = "idle" => cycle'[c].pc = "idle"]_vars

\* C12 witness: the monitor was stopped while a cycle is waiting for the
\* Analyzer and a further tick was still to come.
StopDuringCycleWitness ==
    /\ monitoringInterval = Null
    /\ \E c \in Cycles : Running(c)
    /\ started < budget.cycles

Greetings(rcv) == LET IsGreeting(entry) == entry.cycle = 0 IN SelectSeq(rcv, IsGreeting)

\* C14: the step that accepts a connection puts it in the subscriber set and
\* delivers to it, as its first message, one heartbeat whose clientCount is the
\* size of the set with the new subscriber in it; no later step delivers
\* another such heartbeat.
ConnectAddsAndGreets ==
    [][\A ws \in Sockets :
          IF readyState[ws] = "NONE" /\ readyState'[ws] # "NONE"
          THEN /\ ws \in Range(clients')
               /\ received'[ws] =
                    << [cycle |-> 0,
                        msg |-> [type |-> "heartbeat",
                                 data |-> [status |-> "connected",
                                           clientCount |->
                                               Cardinality(Range(clients) \cup {ws})]]] >>
          ELSE Greetings(received'[ws]) = Greetings(received[ws])]_vars

\* C14 witness: a connection accepted while another was registered, greeted
\* with clientCount 2.
ConnectGreetsWitness ==
    \E ws \in Sockets :
        /\ Len(received[ws]) >= 1
        /\ received[ws][1].cycle = 0
        /\ received[ws][1].msg.data.clientCount = 2

\* C15: a connection whose close or error handler has run receives nothing more,
\* and no later broadcast, of a new cycle or of one that was in flight, finds it
\* in the subscriber set.
NoLateDelivery ==
    [][\A ws \in signalled :
          /\ received'[ws] = received[ws]
          /\ (pub' # pub => ws \notin lastBroadcast'.members)]_vars

\* C15 witness: a connection received a message of a cycle, its handler ran
\* while that cycle was waiting, and the cycle's next broadcast, in which no
\* send failed, went on without it.
NoLateDeliveryWitness ==
    \E ws \in signalled, c \in Cycles :
        /\ \E i \in 1..Len(received[ws]) : received[ws][i].cycle = c
        /\ lastBroadcast.cycle = c
        /\ lastBroadcast.failed = {}
        /\ ws \notin lastBroadcast.members
        /\ Len(pub[c]) >= 2

\* getClientCount
getClientCount == Len(clients)

\* C16: the subscriber set holds exactly the connections that were accepted and
\* have not signalled close or error, each once, whatever the order and the
\* repetition of those events.
SubscribersAreLiveConnections ==
    /\ Range(clients) = {ws \in Sockets : readyState[ws] # "NONE"} \ signalled
    /\ getClientCount = Cardinality(Range(clients))

\* C16 witness: one connection went through error and close (it is CLOSED and
\* signalled) while another is still registered.
SubscribersWitness ==
    \E ws, v \in Sockets :
        /\ ws \in signalled
        /\ readyState[ws] = "CLOSED"
        /\ v \in Range(clients)

\* C17: no two stored events have the same id.
NoTwoEventsShareAnId ==
    \A i, j \in 1..Len(conflictEvents) :
        i # j => conflictEvents[i].value.id # conflictEvents[j].value.id

\* C18: a query returns stored events only, each of which satisfies every
\* predicate its FilterSpec supplies (a non-empty set, a non-empty region, a
\* start, an end), in descending order of eventDate.
QueryFiltersAndSorts ==
    storeCall.op = "query" =>
        LET filters == storeCall.filters
            result == storeCall.result
        IN  /\ \A k \in 1..Len(result) :
                 LET e == result[k]
                 IN  /\ \E i \in 1..Len(conflictEvents) : conflictEvents[i].value = e
                     /\ filters.severity = {} \/ e.severity \in filters.severity
                     /\ filters.eventTypes = {} \/ e.eventType \in filters.eventTypes
                     /\ filters.countries = {} \/ e.country \in filters.countries
                     /\ filters.region \in {Null, ""} \/ e.region = filters.region
                     /\ filters.startDate = NoDate
                            \/ e.eventDate >= filters.startDate * Day
                     /\ filters.endDate = NoDate \/ e.eventDate <= filters.endDate * Day
            /\ \A k \in 1..(Len(result) - 1) :
                 result[k].eventDate >= result[k + 1].eventDate

\* C18 witness: a query by region and dates that returned some of the stored
\* events, of different dates.
QueryFiltersWitness ==
    /\ storeCall.op = "query"
    /\ storeCall.filters.region \notin {Null, ""}
    /\ storeCall.filters.startDate # NoDate
    /\ storeCall.filters.endDate # NoDate
    /\ Len(storeCall.result) >= 2
    /\ Len(storeCall.result) < Len(conflictEvents)
    /\ storeCall.result[1].eventDate > storeCall.result[Len(storeCall.result)].eventDate

\* C19: a query with limit N returns at most N events, and one without a limit
\* at most 1000.
QueryRespectsLimit ==
    storeCall.op = "query" =>
        Len(storeCall.result)
            <= IF storeCall.filters.limit = <<>> THEN DefaultLimit
               ELSE storeCall.filters.limit[1]

\* C20: in every statistics answer the four severity counts add up to
\* totalEvents.
SeverityCountsSumToTotal ==
    storeCall.op = "stats" =>
        LET counts == storeCall.result.severityCounts
        IN  counts.low + counts.medium + counts.high + counts.critical
                = storeCall.result.totalEvents

\* C21: when every insert call issued by the concurrent callers has completed,
\* a query without filters returns exactly as many events as inserts were
\* made, with distinct ids.
ConcurrentInsertsAllStored ==
    (/\ storeCall.op = "query"
     /\ storeCall.filters = NoFilters
     /\ \A k \in Callers : callers[k].pc # "awaiting") =>
        LET result == storeCall.result
            M == Cardinality({k \in Callers : callers[k].pc = "returned"})
        IN  /\ Len(result) = M
            /\ \A i, j \in 1..Len(result) : i # j => result[i].id # result[j].id

\* C22: every stored event has the severity that the thresholds give for its
\* fatalities (none counting as 0).
SeverityMatchesFatalities ==
    \A i \in 1..Len(conflictEvents) :
        LET e == conflictEvents[i].value
        IN  e.severity
              = determineSeverity(IF e.fatalities = NullFatalities THEN 0 ELSE e.fatalities)

\* An event without its id.
WithoutId(e) == [f \in DOMAIN e \ {"id"} |-> e[f]]

PlacesOf(country) ==
    {i \in 1..Len(conflictEvents) : conflictEvents[i].value.country = country}
FirstPlace(country) ==
    CHOOSE i \in PlacesOf(country) : \A j \in PlacesOf(country) : i <= j
\* Country a ranks before country b.
RanksBefore(a, b) ==
    \/ Cardinality(PlacesOf(a)) > Cardinality(PlacesOf(b))
    \/ /\ Cardinality(PlacesOf(a)) = Cardinality(PlacesOf(b))
       /\ FirstPlace(a) < FirstPlace(b)

\* C24: a hotspot ranking holds one entry per country with the number of its
\* stored events, the region of its first event and its highest severity; the
\* entries are the first limit (10 when none is given) countries by descending
\* eventCount, equal counts in the order of the countries' first stored events.
\* The store determines the answer, so an unchanged store gives it again.
HotspotsRankedAndStable ==
    storeCall.op = "hotspots" =>
        LET result == storeCall.result
            limit == IF storeCall.limit = <<>> THEN 10 ELSE storeCall.limit[1]
            countries == {conflictEvents[i].value.country : i \in 1..Len(conflictEvents)}
            ranked == {result[k].country : k \in 1..Len(result)}
        IN  /\ Len(result) = IF limit < Cardinality(countries) THEN limit
                              ELSE Cardinality(countries)
            /\ ranked \subseteq countries
            /\ Cardinality(ranked) = Len(result)
            /\ \A k \in 1..Len(result) :
                 LET first == conflictEvents[FirstPlace(result[k].country)].value
                     severities == {conflictEvents[i].value.severity :
                                       i \in PlacesOf(result[k].country)}
                 IN  /\ result[k].eventCount = Cardinality(PlacesOf(result[k].country))
                     /\ result[k].region
                          = IF first.region = Null THEN "" ELSE first.region
                     /\ result[k].severity
                          = IF "critical" \in severities THEN "critical"
                            ELSE IF "high" \in severities THEN "high"
                            ELSE IF "medium" \in severities THEN "medium"
                            ELSE "low"
            /\ \A k, l \in 1..Len(result) :
                 k < l => RanksBefore(result[k].country, result[l].country)
            /\ \A a \in ranked, b \in countries \ ranked : RanksBefore(a, b)
            /\ result = getHotspots(conflictEvents, storeCall.limit)

\* C24 witness: a ranking cut to two entries whose counts differ, with the second
\* entry winning a tie against a country that was cut.
HotspotsWitness ==
    /\ storeCall.op = "hotspots"
    /\ storeCall.limit = <<2>>
    /\ Len(storeCall.result) = 2
    /\ storeCall.result[1].eventCount > storeCall.result[2].eventCount
    /\ \E i \in 1..Len(conflictEvents) :
          LET country == conflictEvents[i].value.country
          IN  /\ country # storeCall.result[2].country
              /\ Cardinality(PlacesOf(country)) = storeCall.result[2].eventCount

\* C25: an update or a delete of an id that is not in the store answers
\* not-found and leaves the store as it was; an update keeps the number of
\* stored events; a delete answers true exactly when the id was there, removes
\* that entry only, and afterwards a get of the id finds nothing and another
\* delete of it answers false.
UnknownIdLeavesStore ==
    [][storeCall'.n # storeCall.n =>
          /\ storeCall'.op = "update" =>
                /\ Len(conflictEvents') = Len(conflictEvents)
                /\ (storeCall'.result = <<>>) = (storeCall'.id \notin Keys(conflictEvents))
                /\ storeCall'.id \notin Keys(conflictEvents) =>
                      conflictEvents' = conflictEvents
          /\ storeCall'.op = "delete" =>
                LET Other(entry) == entry.key # storeCall'.id
                IN  /\ storeCall'.result = (storeCall'.id \in Keys(conflictEvents))
                    /\ conflictEvents' = SelectSeq(conflictEvents, Other)
                    /\ ~storeCall'.result => conflictEvents' = conflictEvents
                    /\ storeCall'.result =>
                          Len(conflictEvents') = Len(conflictEvents) - 1
                    /\ getConflictEvent(conflictEvents', storeCall'.id) = <<>>
                    /\ ~deleteConflictEvent(conflictEvents', storeCall'.id).result]_vars

\* C25 witness: a delete of an id that had been handed out and deleted before
\* answered false.
SecondDeleteWitness ==
    /\ storeCall.op = "delete"
    /\ storeCall.id # UnknownId
    /\ ~storeCall.result
    /\ storeCall.n = 2

\* C26: events of the same eventDate come back from a query in the order in
\* which they were inserted (keys are handed out in increasing order), whatever
\* was inserted, updated or deleted before.
TiesInInsertionOrder ==
    storeCall.op = "query" =>
        LET result == storeCall.result
        IN  \A k, l \in 1..Len(result) :
                k < l /\ result[k].eventDate = result[l].eventDate =>
                    \E i, j \in 1..Len(conflictEvents) :
                        /\ conflictEvents[i].value = result[k]
                        /\ conflictEvents[j].value = result[l]
                        /\ conflictEvents[i].key < conflictEvents[j].key

\* C26 witness: an event that was updated (its severity is the updated one) is
\* returned ahead of a later inserted event of the same eventDate.
TiesWitness ==
    /\ storeCall.op = "query"
    /\ \E k \in 1..(Len(storeCall.result) - 1) :
          /\ storeCall.result[k].severity = "severe"
          /\ storeCall.result[k + 1].eventDate = storeCall.result[k].eventDate

\* C27: an event created without a fatalities value is stored with fatalities 0:
\* the event a create stores and returns has a non-negative fatalities value.
CreatedFatalitiesDefaultToZero ==
    [][storeCall'.n # storeCall.n /\ storeCall'.op = "create" =>
          /\ storeCall'.result.fatalities >= 0
          /\ LET got == getConflictEvent(conflictEvents', storeCall'.result.id)
             IN  got # <<>> /\ got[1].fatalities >= 0]_vars

\* C29: for every id, get(id) is not-found or an event whose id is the id asked
\* for: each entry is stored under the key equal to its own id.
StoredUnderOwnId ==
    \A id \in Ids :
        LET got == getConflictEvent(conflictEvents, id)
        IN  got = <<>> \/ got[1].id = id

\* C28: every monitoring cycle that has started goes on to end, by its heartbeat
\* or in its catch block, also the cycle whose OpenAI call never settles.
EveryCycleEnds ==
    \A c \in Cycles : (cycle[c].pc # "idle") ~> Ended(c)

\* The messages of cycle c among what a connection received.
OfCycle(rcv, c) ==
    LET Is(entry) == entry.cycle = c
        entries == SelectSeq(rcv, Is)
    IN  [i \in 1..Len(entries) |-> entries[i].msg]

\* C30: in every step, what a subscriber receives of a cycle is exactly what
\* the cycle publishes in that step if the subscriber is registered and OPEN,
\* in publish order, and nothing otherwise; so over a cycle it receives the
\* messages published while it was registered and open.  (A subscriber whose
\* own send threw is left aside.)
ReceivesWhatIsPublishedWhileOpen ==
    [][\A c \in Cycles, ws \in Sockets :
          LET published == SubSeq(pub'[c], Len(pub[c]) + 1, Len(pub'[c]))
              before == OfCycle(received[ws], c)
              after == OfCycle(received'[ws], c)
          IN  pub'[c] # pub[c] /\ ws \notin lastBroadcast'.failed =>
                  /\ Len(after) >= Len(before)
                  /\ SubSeq(after, 1, Len(before)) = before
                  /\ SubSeq(after, Len(before) + 1, Len(after))
                       = IF ws \in Range(clients) /\ readyState[ws] = "OPEN"
                         THEN published ELSE <<>>]_vars

====
